---- MODULE Spec2Model ----
(***************************************************************************)
(* The KimiAi language-model provider                                      *)
(* (crates/language_model/src/provider/kimi_ai.rs): the credential state   *)
(* (State: api_key, api_key_from_env), its three asynchronous operations   *)
(* (authenticate, set_api_key, reset_api_key), and the completion calls    *)
(* (stream_completion, use_any_tool) that pass through each model          *)
(* object's request_limiter; and the functions of the model objects: the  *)
(* model list of provided_models, count_tokens, the request that          *)
(* use_any_tool sends, and the decoding of the response events.           *)
(***************************************************************************)
EXTENDS Naturals, FiniteSets, Sequences, Bags, TLC

VARIABLES
    api_key,            \* State.api_key: None or the cached secret
    api_key_from_env,   \* State.api_key_from_env
    notified,           \* TRUE iff the last step called cx.notify() on State
    env_var,            \* value of the KIMIAI_API_KEY_VAR environment variable
    credentials,        \* secure-storage entry for settings.api_url
    tasks,              \* bag of the credential Tasks in flight or finished
    request_limiter,    \* per model object: permits of its RateLimiter in use
    calls,              \* bag of the completion calls in flight
    last_result,        \* how the most recently ended completion call ended
    available_models,   \* settings: kimiai.available_models, in settings order
    models,             \* the Vec returned by provided_models, if it was called
    messages,           \* request.messages: the string_contents of each message
    token_count,        \* the value count_tokens resolved to, if it was called
    tool,               \* tool_name, tool_description, schema given to use_any_tool
    kimi_request,       \* the kimi_ai::Request that is sent, once it is built
    events,             \* the response events that have arrived, in arrival order
    buffer,             \* the tool arguments accumulated by the decoder
    output,             \* the items of the stream handed back to the caller
    stream_state        \* "idle", "open" or "ended"

credVars == <<api_key, api_key_from_env, notified, env_var, credentials, tasks>>
callVars == <<request_limiter, calls, last_result>>
catalogVars == <<available_models, models>>
tokenVars == <<messages, token_count>>
toolVars == <<tool, kimi_request>>
streamVars == <<events, buffer, output, stream_state>>
modelVars == <<catalogVars, tokenVars, toolVars, streamVars>>

vars == <<credVars, callVars, modelVars>>

----------------------------------------------------------------------------
(* Values *)

None == "none"
\* Option values that are not strings: None is <<>>, Some(x) is <<x>>
Nothing == <<>>
Some(x) == <<x>>
\* a stored value that is not valid UTF-8 (String::from_utf8 fails on it)
Invalid == "invalid_utf8"
\* the secrets a user may save through set_api_key
Secrets == {"k1", "k2"}
\* the secret the environment variable holds when it is set
EnvSecret == "kenv"

\* RateLimiter::new(4)
N == 4

\* bounds of the credential specification
MaxTasks == 3
\* bounds of the admission specification: model objects and calls in flight
MaxModels == 2
MaxCalls == 5
\* bound of the one-limiter specification: calls in flight on the model object
MaxLimiterCalls == 5
\* bounds of the combined specification
MaxFullTasks == 1
MaxFullCalls == 1

Replace(bag, old, new) == (bag (-) SetToBag({old})) (+) SetToBag({new})
Remove(bag, old) == bag (-) SetToBag({old})
Add(bag, new) == bag (+) SetToBag({new})

----------------------------------------------------------------------------
(* Credential state *)

is_authenticated == api_key # None

\* a Task<Result<()>> of State: the operation, where its future stands, the
\* secret it carries, its result once it has one, and whether log_err() has
\* logged an error for it
Task(op, pc, key, res) ==
    [op |-> op, pc |-> pc, key |-> key, res |-> res, logged |-> FALSE]

\* State::reset_api_key: issue the delete and spawn the continuation
reset_api_key ==
    /\ tasks' = Add(tasks, Task("reset_api_key", "deleting", None, None))
    /\ notified' = FALSE
    /\ UNCHANGED <<api_key, api_key_from_env, env_var, credentials>>
    /\ UNCHANGED <<callVars, modelVars>>

\* faulty variant: the delete's error returned with `?` instead of logged
reset_api_key_delete_propagates(t, ok) ==
    /\ t.op = "reset_api_key" /\ t.pc = "deleting"
    /\ credentials' = IF ok THEN None ELSE credentials
    /\ tasks' = Replace(tasks, t,
                    IF ok THEN [t EXCEPT !.pc = "deleted"]
                          ELSE [t EXCEPT !.pc = "done", !.res = "delete_failed"])
    /\ notified' = FALSE
    /\ UNCHANGED <<api_key, api_key_from_env, env_var>>
    /\ UNCHANGED <<callVars, modelVars>>

\* delete_credentials completes, successfully or not; log_err() swallows a failure
reset_api_key_delete(t, ok) ==
    /\ t.op = "reset_api_key" /\ t.pc = "deleting"
    /\ credentials' = IF ok THEN None ELSE credentials
    /\ tasks' = Replace(tasks, t, [t EXCEPT !.pc = "deleted", !.logged = ~ok])
    /\ notified' = FALSE
    /\ UNCHANGED <<api_key, api_key_from_env, env_var>>
    /\ UNCHANGED <<callVars, modelVars>>

\* faulty variant: the cache cleared, api_key_from_env left as it is
reset_api_key_update_key_only(t) ==
    /\ t.op = "reset_api_key" /\ t.pc = "deleted"
    /\ api_key' = None
    /\ notified' = TRUE
    /\ tasks' = Replace(tasks, t, [t EXCEPT !.pc = "done", !.res = "ok"])
    /\ UNCHANGED <<api_key_from_env, env_var, credentials>>
    /\ UNCHANGED <<callVars, modelVars>>

\* this.update(..): clear the cache and notify
reset_api_key_update(t) ==
    /\ t.op = "reset_api_key" /\ t.pc = "deleted"
    /\ api_key' = None
    /\ api_key_from_env' = FALSE
    /\ notified' = TRUE
    /\ tasks' = Replace(tasks, t, [t EXCEPT !.pc = "done", !.res = "ok"])
    /\ UNCHANGED <<env_var, credentials>>
    /\ UNCHANGED <<callVars, modelVars>>

\* State::set_api_key: issue the write and spawn the continuation
set_api_key(k) ==
    /\ tasks' = Add(tasks, Task("set_api_key", "writing", k, None))
    /\ notified' = FALSE
    /\ UNCHANGED <<api_key, api_key_from_env, env_var, credentials>>
    /\ UNCHANGED <<callVars, modelVars>>

\* faulty variant: a failed write is logged and the task goes on
set_api_key_write_logged(t, ok) ==
    /\ t.op = "set_api_key" /\ t.pc = "writing"
    /\ credentials' = IF ok THEN t.key ELSE credentials
    /\ tasks' = Replace(tasks, t, [t EXCEPT !.pc = "written", !.logged = ~ok])
    /\ notified' = FALSE
    /\ UNCHANGED <<api_key, api_key_from_env, env_var>>
    /\ UNCHANGED <<callVars, modelVars>>

\* write_credentials completes; `?` returns its error from the task
set_api_key_write(t, ok) ==
    /\ t.op = "set_api_key" /\ t.pc = "writing"
    /\ credentials' = IF ok THEN t.key ELSE credentials
    /\ tasks' = Replace(tasks, t,
                    IF ok THEN [t EXCEPT !.pc = "written"]
                          ELSE [t EXCEPT !.pc = "done", !.res = "write_failed"])
    /\ notified' = FALSE
    /\ UNCHANGED <<api_key, api_key_from_env, env_var>>
    /\ UNCHANGED <<callVars, modelVars>>

\* faulty variant: the cache updated without cx.notify()
set_api_key_update_silent(t) ==
    /\ t.op = "set_api_key" /\ t.pc = "written"
    /\ api_key' = t.key
    /\ notified' = FALSE
    /\ tasks' = Replace(tasks, t, [t EXCEPT !.pc = "done", !.res = "ok"])
    /\ UNCHANGED <<api_key_from_env, env_var, credentials>>
    /\ UNCHANGED <<callVars, modelVars>>

\* faulty variant: the cache updated from what secure storage holds by then
set_api_key_update_stored(t) ==
    /\ t.op = "set_api_key" /\ t.pc = "written"
    /\ api_key' = credentials
    /\ notified' = TRUE
    /\ tasks' = Replace(tasks, t, [t EXCEPT !.pc = "done", !.res = "ok"])
    /\ UNCHANGED <<api_key_from_env, env_var, credentials>>
    /\ UNCHANGED <<callVars, modelVars>>

\* this.update(..): cache the secret and notify
set_api_key_update(t) ==
    /\ t.op = "set_api_key" /\ t.pc = "written"
    /\ api_key' = t.key
    /\ notified' = TRUE
    /\ tasks' = Replace(tasks, t, [t EXCEPT !.pc = "done", !.res = "ok"])
    /\ UNCHANGED <<api_key_from_env, env_var, credentials>>
    /\ UNCHANGED <<callVars, modelVars>>

\* faulty variant: no is_authenticated() check, the lookup is spawned every time
authenticate_always_spawns ==
    /\ tasks' = Add(tasks, Task("authenticate", "spawned", None, None))
    /\ notified' = FALSE
    /\ UNCHANGED <<api_key, api_key_from_env, env_var, credentials>>
    /\ UNCHANGED <<callVars, modelVars>>

\* State::authenticate: Task::ready(Ok(())) when a key is cached, else spawn
authenticate ==
    /\ tasks' = Add(tasks,
                    IF is_authenticated
                    THEN Task("authenticate", "ready", None, "ok")
                    ELSE Task("authenticate", "spawned", None, None))
    /\ notified' = FALSE
    /\ UNCHANGED <<api_key, api_key_from_env, env_var, credentials>>
    /\ UNCHANGED <<callVars, modelVars>>

\* faulty variant: secure storage consulted without looking at the environment
authenticate_poll_store_first(t) ==
    /\ t.op = "authenticate" /\ t.pc = "spawned"
    /\ tasks' = Replace(tasks, t, [t EXCEPT !.pc = "reading"])
    /\ notified' = FALSE
    /\ UNCHANGED <<api_key, api_key_from_env, env_var, credentials>>
    /\ UNCHANGED <<callVars, modelVars>>

\* first poll of the spawned future: std::env::var, and with the variable set
\* the update follows without a suspension point; otherwise read_credentials
\* is issued
authenticate_poll(t) ==
    /\ t.op = "authenticate" /\ t.pc = "spawned"
    /\ IF env_var # None
       THEN /\ api_key' = env_var
            /\ api_key_from_env' = TRUE
            /\ notified' = TRUE
            /\ tasks' = Replace(tasks, t, [t EXCEPT !.pc = "done", !.res = "ok"])
       ELSE /\ tasks' = Replace(tasks, t, [t EXCEPT !.pc = "reading"])
            /\ notified' = FALSE
            /\ UNCHANGED <<api_key, api_key_from_env>>
    /\ UNCHANGED <<env_var, credentials>>
    /\ UNCHANGED <<callVars, modelVars>>

\* read_credentials completes with the entry as it is now, or with an error
authenticate_read(t, ok) ==
    /\ t.op = "authenticate" /\ t.pc = "reading"
    /\ tasks' = Replace(tasks, t,
                    IF ok THEN [t EXCEPT !.pc = "read", !.key = credentials]
                          ELSE [t EXCEPT !.pc = "done", !.res = "read_failed"])
    /\ notified' = FALSE
    /\ UNCHANGED <<api_key, api_key_from_env, env_var, credentials>>
    /\ UNCHANGED <<callVars, modelVars>>

\* faulty variant: a missing entry taken as an empty key (unwrap_or_default for
\* ok_or_else)
authenticate_update_default(t) ==
    /\ t.op = "authenticate" /\ t.pc = "read"
    /\ IF t.key = Invalid
       THEN /\ tasks' = Replace(tasks, t,
                    [t EXCEPT !.pc = "done", !.key = None, !.res = "utf8_error"])
            /\ notified' = FALSE
            /\ UNCHANGED <<api_key, api_key_from_env>>
       ELSE /\ api_key' = IF t.key = None THEN "" ELSE t.key
            /\ api_key_from_env' = FALSE
            /\ notified' = TRUE
            /\ tasks' = Replace(tasks, t,
                    [t EXCEPT !.pc = "done", !.key = None, !.res = "ok"])
    /\ UNCHANGED <<env_var, credentials>>
    /\ UNCHANGED <<callVars, modelVars>>

\* the continuation after read_credentials: ok_or_else, from_utf8, this.update
authenticate_update(t) ==
    /\ t.op = "authenticate" /\ t.pc = "read"
    /\ IF t.key = None
       THEN /\ tasks' = Replace(tasks, t,
                    [t EXCEPT !.pc = "done", !.key = None, !.res = "credentials not found"])
            /\ notified' = FALSE
            /\ UNCHANGED <<api_key, api_key_from_env>>
       ELSE IF t.key = Invalid
       THEN /\ tasks' = Replace(tasks, t,
                    [t EXCEPT !.pc = "done", !.key = None, !.res = "utf8_error"])
            /\ notified' = FALSE
            /\ UNCHANGED <<api_key, api_key_from_env>>
       ELSE /\ api_key' = t.key
            /\ api_key_from_env' = FALSE
            /\ notified' = TRUE
            /\ tasks' = Replace(tasks, t,
                    [t EXCEPT !.pc = "done", !.key = None, !.res = "ok"])
    /\ UNCHANGED <<env_var, credentials>>
    /\ UNCHANGED <<callVars, modelVars>>

\* the caller takes the finished Task's result (await, detach_and_log_err)
task_finished(t) ==
    /\ t.pc \in {"ready", "done"}
    /\ tasks' = Remove(tasks, t)
    /\ notified' = FALSE
    /\ UNCHANGED <<api_key, api_key_from_env, env_var, credentials>>
    /\ UNCHANGED <<callVars, modelVars>>

\* the SettingsStore observer registered in KimiAiLanguageModelProvider::new
settings_changed ==
    /\ notified' = TRUE
    /\ UNCHANGED <<api_key, api_key_from_env, env_var, credentials, tasks>>
    /\ UNCHANGED <<callVars, modelVars>>

\* KimiAiLanguageModelProvider::new, in an environment where the variable may
\* be set and secure storage may hold an entry
InitCredentials ==
    /\ api_key = None
    /\ api_key_from_env = FALSE
    /\ notified = FALSE
    /\ env_var \in {None, EnvSecret}
    /\ credentials \in {None, Invalid, "k1"}
    /\ tasks = EmptyBag

InitCalls ==
    /\ request_limiter = <<>>
    /\ calls = EmptyBag
    /\ last_result = None

\* no settings entry, and no call of provided_models, count_tokens or
\* use_any_tool yet
CatalogIdle == available_models = <<>> /\ models = Nothing
TokensIdle == messages = <<>> /\ token_count = Nothing
ToolIdle == tool = Nothing /\ kimi_request = Nothing
StreamIdle == events = <<>> /\ buffer = <<>> /\ output = <<>> /\ stream_state = "idle"
ModelsIdle == CatalogIdle /\ TokensIdle /\ ToolIdle /\ StreamIdle

NextCredentials ==
    \/ BagCardinality(tasks) < MaxTasks /\ reset_api_key
    \/ \E k \in Secrets : BagCardinality(tasks) < MaxTasks /\ set_api_key(k)
    \/ BagCardinality(tasks) < MaxTasks /\ authenticate
    \/ \E t \in BagToSet(tasks), ok \in BOOLEAN : reset_api_key_delete(t, ok)
    \/ \E t \in BagToSet(tasks) : reset_api_key_update(t)
    \/ \E t \in BagToSet(tasks), ok \in BOOLEAN : set_api_key_write(t, ok)
    \/ \E t \in BagToSet(tasks) : set_api_key_update(t)
    \/ \E t \in BagToSet(tasks) : authenticate_poll(t)
    \/ \E t \in BagToSet(tasks), ok \in BOOLEAN : authenticate_read(t, ok)
    \/ \E t \in BagToSet(tasks) : authenticate_update(t)
    \/ \E t \in BagToSet(tasks) : task_finished(t)
    \/ settings_changed

InitStore == InitCredentials /\ InitCalls /\ ModelsIdle

SpecCredentials == InitStore /\ [][NextCredentials]_vars

----------------------------------------------------------------------------
(* RateLimiter (crates/language_model/src/rate_limiter.rs): a counter of     *)
(* permits in use per limiter; run and stream take one permit before the     *)
(* wrapped future starts and give it back when the guard is dropped.         *)

Available(m) == request_limiter[m] < N

Acquire(m) == [request_limiter EXCEPT ![m] = @ + 1]

\* faulty variant: a guard that is dropped without giving its permit back
Release_leak(m, n) == request_limiter

Release(m, n) == [request_limiter EXCEPT ![m] = @ - n]

----------------------------------------------------------------------------
(* Completion calls *)

Call(m, kind, pc, key) == [model |-> m, kind |-> kind, pc |-> pc, api_key |-> key]

\* the permits owned by the future or stream of call c, which dropping it frees
GuardsHeld(c) ==
    IF c.kind = "stream_completion"
    THEN IF c.pc \in {"request", "streaming"} THEN 1 ELSE 0
    ELSE CASE c.pc = "queued_run" -> 0
           [] c.pc = "queued_stream" -> 1
           [] c.pc = "request" -> 2
           [] c.pc = "extracting" -> 2
           [] c.pc = "streaming" -> 1

\* KimiAiLanguageModelProvider::provided_models: a model object with a
\* RateLimiter of its own
provided_models ==
    /\ request_limiter' = Append(request_limiter, 0)
    /\ UNCHANGED <<calls, last_result>>
    /\ UNCHANGED <<credVars, modelVars>>

\* LanguageModel::stream_completion on model object m: read state.api_key now,
\* hand the request future to request_limiter.stream
stream_completion(m) ==
    /\ m \in DOMAIN request_limiter
    /\ calls' = Add(calls, Call(m, "stream_completion", "queued", api_key))
    /\ UNCHANGED <<request_limiter, last_result>>
    /\ UNCHANGED <<credVars, modelVars>>

\* LanguageModel::use_any_tool on model object m: stream_completion as above,
\* its future wrapped in request_limiter.run
use_any_tool(m) ==
    /\ m \in DOMAIN request_limiter
    /\ calls' = Add(calls, Call(m, "use_any_tool", "queued_run", api_key))
    /\ UNCHANGED <<request_limiter, last_result>>
    /\ UNCHANGED <<credVars, modelVars>>

\* request_limiter.run of use_any_tool gets its permit and polls the response
\* future, which waits for the permit of request_limiter.stream
limiter_run(c) ==
    /\ c.kind = "use_any_tool" /\ c.pc = "queued_run"
    /\ Available(c.model)
    /\ request_limiter' = Acquire(c.model)
    /\ calls' = Replace(calls, c, [c EXCEPT !.pc = "queued_stream"])
    /\ UNCHANGED last_result
    /\ UNCHANGED <<credVars, modelVars>>

\* faulty variant: the request is sent whether or not there is a key
limiter_stream_sends(c) ==
    /\ \/ c.kind = "stream_completion" /\ c.pc = "queued"
       \/ c.kind = "use_any_tool" /\ c.pc = "queued_stream"
    /\ Available(c.model)
    /\ request_limiter' = Acquire(c.model)
    /\ calls' = Replace(calls, c, [c EXCEPT !.pc = "request"])
    /\ UNCHANGED last_result
    /\ UNCHANGED <<credVars, modelVars>>

\* request_limiter.stream gets its permit and runs the request future: without
\* a key it fails at once (the guards are dropped), with one the request is sent
limiter_stream(c) ==
    /\ \/ c.kind = "stream_completion" /\ c.pc = "queued"
       \/ c.kind = "use_any_tool" /\ c.pc = "queued_stream"
    /\ Available(c.model)
    /\ IF c.api_key = None
       THEN /\ request_limiter' = Release(c.model, GuardsHeld(c))
            /\ calls' = Remove(calls, c)
            /\ last_result' = "missing api key"
       ELSE /\ request_limiter' = Acquire(c.model)
            /\ calls' = Replace(calls, c, [c EXCEPT !.pc = "request"])
            /\ UNCHANGED last_result
    /\ UNCHANGED <<credVars, modelVars>>

\* kimi_ai::stream_completion returns: the response stream, or a transport
\* error that `?` passes on
request_returns(c, ok) ==
    /\ c.pc = "request"
    /\ IF ok
       THEN /\ calls' = Replace(calls, c,
                  [c EXCEPT !.pc = IF c.kind = "use_any_tool"
                                   THEN "extracting" ELSE "streaming"])
            /\ UNCHANGED <<request_limiter, last_result>>
       ELSE /\ request_limiter' = Release(c.model, GuardsHeld(c))
            /\ calls' = Remove(calls, c)
            /\ last_result' = "transport error"
    /\ UNCHANGED <<credVars, modelVars>>

\* kimi_ai::extract_tool_args_from_events inside request_limiter.run returns:
\* the argument stream (run's guard is dropped, the stream keeps its own), or
\* an error (both are dropped)
extract_tool_args(c, ok) ==
    /\ c.kind = "use_any_tool" /\ c.pc = "extracting"
    /\ IF ok
       THEN /\ request_limiter' = Release(c.model, 1)
            /\ calls' = Replace(calls, c, [c EXCEPT !.pc = "streaming"])
            /\ UNCHANGED last_result
       ELSE /\ request_limiter' = Release(c.model, 2)
            /\ calls' = Remove(calls, c)
            /\ last_result' = "tool error"
    /\ UNCHANGED <<credVars, modelVars>>

\* the consumer drains the returned stream to its end, or drops it before
stream_end(c, drained) ==
    /\ c.pc = "streaming"
    /\ request_limiter' = Release(c.model, 1)
    /\ calls' = Remove(calls, c)
    /\ last_result' = IF drained THEN "stream end" ELSE "stream dropped"
    /\ UNCHANGED <<credVars, modelVars>>

\* the caller drops the returned future before it has produced the stream
cancel(c) ==
    /\ c.pc # "streaming"
    /\ request_limiter' = Release(c.model, GuardsHeld(c))
    /\ calls' = Remove(calls, c)
    /\ last_result' = "cancelled"
    /\ UNCHANGED <<credVars, modelVars>>

CallSteps ==
    \/ \E c \in BagToSet(calls) : limiter_run(c)
    \/ \E c \in BagToSet(calls) : limiter_stream(c)
    \/ \E c \in BagToSet(calls), ok \in BOOLEAN : request_returns(c, ok)
    \/ \E c \in BagToSet(calls), ok \in BOOLEAN : extract_tool_args(c, ok)
    \/ \E c \in BagToSet(calls), drained \in BOOLEAN : stream_end(c, drained)
    \/ \E c \in BagToSet(calls) : cancel(c)

NextAdmission ==
    \/ Len(request_limiter) < MaxModels /\ provided_models
    \/ \E m \in 1..MaxModels : BagCardinality(calls) < MaxCalls /\ stream_completion(m)
    \/ \E m \in 1..MaxModels : BagCardinality(calls) < MaxCalls /\ use_any_tool(m)
    \/ CallSteps

\* the provider either as constructed, or after set_api_key("k1") has completed
InitAdmission ==
    /\ api_key \in {None, "k1"}
    /\ credentials = api_key
    /\ api_key_from_env = FALSE
    /\ notified = FALSE
    /\ env_var = None
    /\ tasks = EmptyBag

InitProvider == InitAdmission /\ InitCalls /\ ModelsIdle

SpecAdmission == InitProvider /\ [][NextAdmission]_vars

----------------------------------------------------------------------------
(* One model object and its limiter, with the credential state fixed *)

\* after provided_models has returned one model object
InitOneModel ==
    /\ request_limiter = <<0>>
    /\ calls = EmptyBag
    /\ last_result = None

NextLimiter ==
    \/ BagCardinality(calls) < MaxLimiterCalls /\ stream_completion(1)
    \/ BagCardinality(calls) < MaxLimiterCalls /\ use_any_tool(1)
    \/ CallSteps

InitLimiter == InitAdmission /\ InitOneModel /\ ModelsIdle

SpecLimiter == InitLimiter /\ [][NextLimiter]_vars

----------------------------------------------------------------------------
(* The credential operations and the completion calls of one model object *)

NextFull ==
    \/ BagCardinality(tasks) < MaxFullTasks /\ reset_api_key
    \/ \E k \in Secrets : BagCardinality(tasks) < MaxFullTasks /\ set_api_key(k)
    \/ BagCardinality(tasks) < MaxFullTasks /\ authenticate
    \/ \E t \in BagToSet(tasks), ok \in BOOLEAN : reset_api_key_delete(t, ok)
    \/ \E t \in BagToSet(tasks) : reset_api_key_update(t)
    \/ \E t \in BagToSet(tasks), ok \in BOOLEAN : set_api_key_write(t, ok)
    \/ \E t \in BagToSet(tasks) : set_api_key_update(t)
    \/ \E t \in BagToSet(tasks) : authenticate_poll(t)
    \/ \E t \in BagToSet(tasks), ok \in BOOLEAN : authenticate_read(t, ok)
    \/ \E t \in BagToSet(tasks) : authenticate_update(t)
    \/ \E t \in BagToSet(tasks) : task_finished(t)
    \/ BagCardinality(calls) < MaxFullCalls /\ stream_completion(1)
    \/ BagCardinality(calls) < MaxFullCalls /\ use_any_tool(1)
    \/ CallSteps

InitFull == InitCredentials /\ InitOneModel /\ ModelsIdle

Spec == InitFull /\ [][NextFull]_vars

----------------------------------------------------------------------------
(* The model list of provided_models.  Model ids are strings in the source  *)
(* and a BTreeMap orders them bytewise; here an id is a number and the      *)
(* order of ids is the order of numbers.                                    *)

MaxAvailableModels == 2

ModelIds == {1, 2, 3}
\* kimi_ai::Model::iter() without the Custom variant (crates/kimi_ai)
BaseModelIds == {1, 3}
TokenLimits == {4000, 8000}
OutputLimits == {0, 1024}

\* kimi_ai::Model: a base variant, with the limits the kimi_ai crate gives it
BaseModel(id) ==
    [variant |-> "Base", name |-> id, max_tokens |-> 8000, max_output_tokens |-> 0]

\* kimi_ai::Model::Custom { name, max_tokens, max_output_tokens }
Custom(name, max_tokens, max_output_tokens) ==
    [variant |-> "Custom", name |-> name, max_tokens |-> max_tokens,
     max_output_tokens |-> max_output_tokens]

\* kimi_ai::Model::id
ModelId(model) == model.name

\* settings: one AvailableModel; max_output_tokens 0 stands for None
AvailableModel == [name : ModelIds, max_tokens : TokenLimits, max_output_tokens : OutputLimits]

RECURSIVE SeqsUpTo(_, _)
SeqsUpTo(S, n) ==
    IF n = 0 THEN {<<>>}
    ELSE LET shorter == SeqsUpTo(S, n - 1)
         IN  shorter \cup {Append(q, x) : q \in shorter, x \in S}

\* faulty variant: an insert that keeps the value the key already has
BTreeInsert_keep(map, key, value) ==
    [k \in DOMAIN map \cup {key} |-> IF k \in DOMAIN map THEN map[k] ELSE value]

\* BTreeMap::insert: the value replaces the one the key had
BTreeInsert(map, key, value) ==
    [k \in DOMAIN map \cup {key} |-> IF k = key THEN value ELSE map[k]]

\* BTreeMap::into_values: the values in ascending order of their keys
RECURSIVE IntoValues(_)
IntoValues(map) ==
    IF DOMAIN map = {} THEN <<>>
    ELSE LET least == CHOOSE k \in DOMAIN map : \A j \in DOMAIN map : k <= j
         IN  <<map[least]>> \o IntoValues([k \in DOMAIN map \ {least} |-> map[k]])

\* the first loop of provided_models
RECURSIVE InsertBase(_, _)
InsertBase(map, ids) ==
    IF ids = {} THEN map
    ELSE LET id == CHOOSE i \in ids : TRUE
         IN  InsertBase(BTreeInsert(map, ModelId(BaseModel(id)), BaseModel(id)), ids \ {id})

\* the second loop of provided_models: the settings entries in settings order
RECURSIVE InsertAvailable(_, _)
InsertAvailable(map, available) ==
    IF available = <<>> THEN map
    ELSE LET model == Head(available)
         IN  InsertAvailable(
                 BTreeInsert(map, model.name,
                             Custom(model.name, model.max_tokens, model.max_output_tokens)),
                 Tail(available))

\* the model objects provided_models builds from the map
KimiAiLanguageModel(model) == [id |-> ModelId(model), model |-> model]

ProvidedModels(available) ==
    LET map == InsertAvailable(InsertBase(<<>>, BaseModelIds), available)
        values == IntoValues(map)
    IN  [i \in 1..Len(values) |-> KimiAiLanguageModel(values[i])]

\* provided_models is called with the settings as they are
list_models ==
    /\ models = Nothing
    /\ models' = Some(ProvidedModels(available_models))
    /\ UNCHANGED available_models
    /\ UNCHANGED <<credVars, callVars, tokenVars, toolVars, streamVars>>

InitSettings ==
    /\ available_models \in SeqsUpTo(AvailableModel, MaxAvailableModels)
    /\ models = Nothing

InitCatalog == InitAdmission /\ InitCalls /\ InitSettings /\ TokensIdle /\ ToolIdle /\ StreamIdle

NextCatalog == list_models

SpecCatalog == InitCatalog /\ [][NextCatalog]_vars

----------------------------------------------------------------------------
(* The request of use_any_tool and the decoding of the response events.    *)
(* A string that is concatenated or parsed is a sequence of characters.    *)

MaxEvents == 3

ToolNames == {"edit", "search"}
ToolDescriptions == {"d1", "d2"}
Schemas == {"s1", "s2"}

\* the arguments tool_name, tool_description, schema of use_any_tool
Tools == [tool_name : ToolNames, tool_description : ToolDescriptions, schema : Schemas]

\* KimiFunctionDefinition { name, description, parameters }
KimiFunctionDefinition(name, description, parameters) ==
    [name |-> name, description |-> description, parameters |-> parameters]

\* KimiToolChoice::Other(KimiToolDefinition::Function { function })
Other(function) == [choice |-> "Other", function |-> function]

\* what request.into_kimi_ai(..) returns (crates/language_model/src/request.rs),
\* as far as tools and tool_choice go: any value
IntoKimiAi ==
    [tools : {<<>>, <<KimiFunctionDefinition("search", "d1", "s1")>>},
     tool_choice : {Nothing, Some([choice |-> "Auto",
                                   function |-> KimiFunctionDefinition(None, None, None)])}]

\* faulty variant: the tool definition is pushed onto the tools that are there
ToolRequest_push(request, t) ==
    [request EXCEPT
        !.tool_choice = Some(Other(KimiFunctionDefinition(t.tool_name, None, None))),
        !.tools = Append(@, KimiFunctionDefinition(t.tool_name, t.tool_description, t.schema))]

\* use_any_tool: request.tool_choice = Some(..); request.tools = vec![..]
ToolRequest(request, t) ==
    [request EXCEPT
        !.tool_choice = Some(Other(KimiFunctionDefinition(t.tool_name, None, None))),
        !.tools = <<KimiFunctionDefinition(t.tool_name, t.tool_description, t.schema)>>]

\* the response events (kimi_ai::ResponseStreamEvent): a text delta, a tool
\* call delta (tool name and a fragment of the arguments), or an error
TextDeltas == {<<>>, <<"a">>, <<"b">>}
Fragments == {<<"[">>, <<"1">>, <<"]">>}
TextEvent(delta) == [kind |-> "text", name |-> None, delta |-> delta]
ToolEvent(name, delta) == [kind |-> "tool", name |-> name, delta |-> delta]
ErrorEvent == [kind |-> "error", name |-> None, delta |-> <<>>]
Events ==
    {TextEvent(d) : d \in TextDeltas}
        \cup {ToolEvent(n, d) : n \in ToolNames, d \in Fragments}
        \cup {ErrorEvent}

\* the items of the returned stream: Result<String>
Ok(value) == [ok |-> TRUE, value |-> value]
Err(error) == [ok |-> FALSE, value |-> <<error>>]

\* serde_json parsing the whole text as one value, for the texts made of
\* "[", "1" and "]": a number, or an array of at most one value
RECURSIVE IsJson(_)
IsJson(text) ==
    /\ Len(text) > 0
    /\ \/ \A i \in 1..Len(text) : text[i] = "1"
       \/ /\ Len(text) >= 2
          /\ text[1] = "["
          /\ text[Len(text)] = "]"
          /\ Len(text) = 2 \/ IsJson(SubSeq(text, 2, Len(text) - 1))

\* faulty variant: the other String argument handed to the decoder
ToolArgsTarget_description == tool[1].tool_description

\* the name use_any_tool hands to extract_tool_args_from_events
ToolArgsTarget == tool[1].tool_name

\* faulty variant: a decoder that hands on every fragment as it arrives
ArgsComplete_always(text) == TRUE

\* kimi_ai::extract_tool_args_from_events: whether the arguments are handed on
ArgsComplete(text) == IsJson(text)

\* kimi_ai::extract_tool_args_from_events, one event: the buffer after it
AccumulateArgs(target, e) ==
    IF e.kind = "tool" /\ e.name = target THEN buffer \o e.delta ELSE buffer

\* faulty variant: text deltas are handed on even when they are empty
EmitsText_all(e) == e.kind = "text"

\* kimi_ai::extract_text_from_events, one event: whether it yields an item
EmitsText(e) == e.kind = "text" /\ e.delta # <<>>

\* use_any_tool up to the request being sent
use_any_tool_request ==
    /\ stream_state = "idle"
    /\ \E request \in IntoKimiAi : kimi_request' = Some(ToolRequest(request, tool[1]))
    /\ stream_state' = "open"
    /\ UNCHANGED <<tool, events, buffer, output>>
    /\ UNCHANGED <<credVars, callVars, catalogVars, tokenVars>>

\* use_any_tool: the next response event reaches extract_tool_args_from_events
tool_args_event(e) ==
    /\ stream_state = "open"
    /\ events' = Append(events, e)
    /\ IF e.kind = "error"
       THEN /\ output' = Append(output, Err("source error"))
            /\ stream_state' = "ended"
            /\ UNCHANGED buffer
       ELSE /\ buffer' = AccumulateArgs(ToolArgsTarget, e)
            /\ IF e.kind = "tool" /\ e.name = ToolArgsTarget /\ ArgsComplete(buffer')
               THEN /\ output' = Append(output, Ok(buffer'))
                    /\ stream_state' = "ended"
               ELSE UNCHANGED <<output, stream_state>>
    /\ UNCHANGED <<tool, kimi_request>>
    /\ UNCHANGED <<credVars, callVars, catalogVars, tokenVars>>

\* use_any_tool: the response ends while the arguments are still incomplete
tool_args_end ==
    /\ stream_state = "open"
    /\ output' = Append(output, Err("IncompleteToolCall"))
    /\ stream_state' = "ended"
    /\ UNCHANGED <<tool, kimi_request, events, buffer>>
    /\ UNCHANGED <<credVars, callVars, catalogVars, tokenVars>>

InitToolUse ==
    /\ InitAdmission /\ InitOneModel
    /\ CatalogIdle /\ TokensIdle /\ StreamIdle
    /\ tool \in {Some(t) : t \in Tools}
    /\ kimi_request = Nothing

NextToolUse ==
    \/ use_any_tool_request
    \/ \E e \in Events : Len(events) < MaxEvents /\ tool_args_event(e)
    \/ tool_args_end

SpecToolUse == InitToolUse /\ [][NextToolUse]_vars

\* LanguageModel::stream_completion up to the request being sent
stream_completion_request ==
    /\ stream_state = "idle"
    /\ kimi_request' \in {Some(request) : request \in IntoKimiAi}
    /\ stream_state' = "open"
    /\ UNCHANGED <<tool, events, buffer, output>>
    /\ UNCHANGED <<credVars, callVars, catalogVars, tokenVars>>

\* stream_completion: the next response event reaches extract_text_from_events
text_event(e) ==
    /\ stream_state = "open"
    /\ events' = Append(events, e)
    /\ IF e.kind = "error"
       THEN /\ output' = Append(output, Err("source error"))
            /\ stream_state' = "ended"
       ELSE /\ output' = IF EmitsText(e) THEN Append(output, Ok(e.delta)) ELSE output
            /\ UNCHANGED stream_state
    /\ UNCHANGED <<tool, kimi_request, buffer>>
    /\ UNCHANGED <<credVars, callVars, catalogVars, tokenVars>>

\* stream_completion: the response ends
text_end ==
    /\ stream_state = "open"
    /\ stream_state' = "ended"
    /\ UNCHANGED <<tool, kimi_request, events, buffer, output>>
    /\ UNCHANGED <<credVars, callVars, catalogVars, tokenVars>>

InitTextStream ==
    /\ InitAdmission /\ InitOneModel
    /\ CatalogIdle /\ TokensIdle /\ ToolIdle /\ StreamIdle

NextTextStream ==
    \/ stream_completion_request
    \/ \E e \in Events : Len(events) < MaxEvents /\ text_event(e)
    \/ text_end

SpecTextStream == InitTextStream /\ [][NextTextStream]_vars

----------------------------------------------------------------------------
(* count_tokens.  A message is given by its string_contents, a sequence of *)
(* characters; "é" is a character of two bytes.                            *)

MaxMessages == 2
MaxContentLen == 2

Chars == {"a", "é"}
Utf8Len(c) == IF c = "é" THEN 2 ELSE 1

\* what msg.string_contents() may return
Contents == SeqsUpTo(Chars, MaxContentLen)

\* faulty variant: str::len, the length in bytes
RECURSIVE CharsCount_bytes(_)
CharsCount_bytes(text) ==
    IF text = <<>> THEN 0 ELSE Utf8Len(Head(text)) + CharsCount_bytes(Tail(text))

\* text.chars().count()
CharsCount(text) == Len(text)

\* request.messages.iter().map(|msg| ..chars().count()).sum::<usize>() * 2
RECURSIVE SumCounts(_)
SumCounts(msgs) ==
    IF msgs = <<>> THEN 0 ELSE CharsCount(Head(msgs)) + SumCounts(Tail(msgs))

CountTokens(msgs) == SumCounts(msgs) * 2

\* count_tokens: the future it returns is ready with the count
count_tokens ==
    /\ token_count = Nothing
    /\ token_count' = Some(CountTokens(messages))
    /\ UNCHANGED messages
    /\ UNCHANGED <<credVars, callVars, catalogVars, toolVars, streamVars>>

InitTokens ==
    /\ InitAdmission /\ InitOneModel
    /\ CatalogIdle /\ ToolIdle /\ StreamIdle
    /\ messages \in SeqsUpTo(Contents, MaxMessages)
    /\ token_count = Nothing

NextTokens == count_tokens

SpecTokens == InitTokens /\ [][NextTokens]_vars

----------------------------------------------------------------------------
(* The completion calls of one model object while authenticate may run: the *)
(* environment variable or secure storage may hold a key that is not cached *)

NextLookup ==
    \/ BagCardinality(tasks) < MaxFullTasks /\ authenticate
    \/ \E t \in BagToSet(tasks) : authenticate_poll(t)
    \/ \E t \in BagToSet(tasks), ok \in BOOLEAN : authenticate_read(t, ok)
    \/ \E t \in BagToSet(tasks) : authenticate_update(t)
    \/ \E t \in BagToSet(tasks) : task_finished(t)
    \/ BagCardinality(calls) < MaxFullCalls /\ stream_completion(1)
    \/ BagCardinality(calls) < MaxFullCalls /\ use_any_tool(1)
    \/ CallSteps

InitLookup == InitCredentials /\ InitOneModel /\ ModelsIdle

SpecLookup == InitLookup /\ [][NextLookup]_vars

----------------------------------------------------------------------------
(* Properties: admission *)

RECURSIVE SumSeq(_)
SumSeq(s) == IF s = <<>> THEN 0 ELSE Head(s) + SumSeq(Tail(s))

RECURSIVE SumHeld(_, _)
SumHeld(S, m) ==
    IF S = {} THEN 0
    ELSE LET c == CHOOSE x \in S : TRUE
         IN (IF c.model = m THEN GuardsHeld(c) * CopiesIn(c, calls) ELSE 0)
            + SumHeld(S \ {c}, m)

\* the permits owned by the futures and streams of the calls on model object m
HeldOn(m) == SumHeld(BagToSet(calls), m)

RECURSIVE CountPc(_, _)
CountPc(S, pc) ==
    IF S = {} THEN 0
    ELSE LET c == CHOOSE x \in S : TRUE
         IN (IF c.pc = pc THEN CopiesIn(c, calls) ELSE 0) + CountPc(S \ {c}, pc)

\* the network requests in flight over all model objects
RequestsInFlight == CountPc(BagToSet(calls), "request")

WaitingForPermit(c) == c.pc \in {"queued", "queued_run", "queued_stream"}

\* C1: over all the model objects provided_models has returned, the permits
\* in use, and the network requests in flight, never exceed N = 4.
C1_GlobalCap ==
    /\ SumSeq(request_limiter) <= N
    /\ RequestsInFlight <= N

\* C2: the calls on one model object never all wait for a permit that none
\* of them can be given (so that, the network and the consumers being live,
\* every call completes).
C2_NoAdmissionDeadlock ==
    calls # EmptyBag =>
        \E c \in BagToSet(calls) : ~WaitingForPermit(c) \/ Available(c.model)

\* C3: every permit a call acquires is given back exactly once, whichever way
\* the call ends: the permits in use on a model object are exactly those its
\* live calls own, and none is in use once all calls have ended.
C3_PermitsReleasedOnce ==
    /\ \A m \in DOMAIN request_limiter : request_limiter[m] = HeldOn(m)
    /\ calls = EmptyBag => \A m \in DOMAIN request_limiter : request_limiter[m] = 0

\* all calls have ended, the last one by a transport error of its request,
\* its permit given back
C3_Witness ==
    /\ calls = EmptyBag
    /\ last_result = "transport error"
    /\ \A m \in DOMAIN request_limiter : request_limiter[m] = 0

----------------------------------------------------------------------------
(* Properties: credential state *)

\* in this step a copy of task record t has moved on, or been taken
Advanced(t) == CopiesIn(t, tasks') < CopiesIn(t, tasks)

\* in this step a task record r has come to be
Gained(r) == CopiesIn(r, tasks') > CopiesIn(r, tasks)

\* in this step the operation op has been invoked
Invoked(op) ==
    /\ BagCardinality(tasks') > BagCardinality(tasks)
    /\ \E r \in BagToSet(tasks') : r.op = op /\ Gained(r)

\* in this step a Task of the operation op has got its result
Completed(op) ==
    \E r \in BagToSet(tasks') : r.op = op /\ r.pc \in {"ready", "done"} /\ Gained(r)

\* C4 as stated: with the environment variable set, every authenticate that
\* completes leaves api_key_from_env true, whatever ran before.
C4_EnvAlwaysWins ==
    [][(env_var # None /\ Completed("authenticate")) => api_key_from_env']_vars

\* C4 amended: with the environment variable set, an authenticate invoked
\* while no key is cached is spawned, and its first poll caches the variable's
\* value with api_key_from_env true, whatever secure storage holds.
C4_EnvWinsWhenUncached ==
    [][/\ (~is_authenticated /\ Invoked("authenticate"))
            => Gained(Task("authenticate", "spawned", None, None))
       /\ \A t \in BagToSet(tasks) :
            (env_var # None /\ t.op = "authenticate" /\ t.pc = "spawned" /\ Advanced(t))
            => /\ api_key' = env_var
               /\ api_key_from_env' = TRUE
               /\ Gained([t EXCEPT !.pc = "done", !.res = "ok"])]_vars

\* the variable's value adopted while secure storage holds a secret that a
\* set_api_key wrote
C4_Witness ==
    /\ env_var = EnvSecret /\ credentials = "k2"
    /\ api_key = EnvSecret /\ api_key_from_env
    /\ \E t \in BagToSet(tasks) : t.op = "authenticate" /\ t.pc = "done" /\ t.res = "ok"

\* C5: once the key has been adopted from the environment variable, a
\* set_api_key that completes does not change the cached value.
C5_EnvKeyKept ==
    [][(api_key_from_env /\ api_key = env_var /\ Completed("set_api_key"))
            => api_key' = api_key]_vars

\* C6: authenticate invoked while a key is cached returns a ready Ok(()) (no
\* future is spawned, so neither the environment nor secure storage is read)
\* and changes neither the cached key nor its provenance, and notifies nobody.
C6_AuthenticateIdempotent ==
    [][(is_authenticated /\ Invoked("authenticate"))
            => /\ Gained(Task("authenticate", "ready", None, "ok"))
               /\ UNCHANGED <<api_key, api_key_from_env, credentials, env_var>>
               /\ notified' = FALSE]_vars

\* a ready authenticate Task, returned while a stored key is cached
C6_Witness ==
    /\ api_key \in Secrets /\ ~api_key_from_env
    /\ \E t \in BagToSet(tasks) : t.op = "authenticate" /\ t.pc = "ready" /\ t.res = "ok"

\* C8: a reset_api_key whose delete has completed, with or without an error,
\* goes on to clear api_key and api_key_from_env, and its result is Ok(()).
C8_ResetClearsAlways ==
    [][\A t \in BagToSet(tasks) :
        (t.op = "reset_api_key" /\ Advanced(t)) =>
            CASE t.pc = "deleting" ->
                    \E l \in BOOLEAN : Gained([t EXCEPT !.pc = "deleted", !.logged = l])
              [] t.pc = "deleted" ->
                    /\ api_key' = None
                    /\ api_key_from_env' = FALSE
                    /\ Gained([t EXCEPT !.pc = "done", !.res = "ok"])
              [] OTHER -> t.pc = "done" /\ t.res = "ok"]_vars

\* a reset whose delete failed (the error was logged, the entry is still in
\* secure storage) has returned Ok(()) and the cache is empty
C8_Witness ==
    /\ api_key = None /\ ~api_key_from_env /\ credentials # None
    /\ \E t \in BagToSet(tasks) :
        t.op = "reset_api_key" /\ t.pc = "done" /\ t.res = "ok" /\ t.logged

\* C9: an authenticate that found no key cached, no environment variable and
\* no entry in secure storage fails with "credentials not found", and that
\* step leaves api_key and api_key_from_env as they are and notifies nobody.
C9_NotFoundChangesNothing ==
    [][\A t \in BagToSet(tasks) :
        (t.op = "authenticate" /\ t.pc = "read" /\ t.key = None /\ Advanced(t)) =>
            /\ Gained([t EXCEPT !.pc = "done", !.res = "credentials not found"])
            /\ UNCHANGED <<api_key, api_key_from_env>>
            /\ notified' = FALSE]_vars

\* authenticate has failed with "credentials not found" and no key is cached
C9_Witness ==
    /\ api_key = None /\ ~api_key_from_env /\ ~notified
    /\ env_var = None /\ credentials = None
    /\ \E t \in BagToSet(tasks) :
        t.op = "authenticate" /\ t.pc = "done" /\ t.res = "credentials not found"

\* C10: a step that changes api_key or api_key_from_env calls cx.notify(), and
\* so does every update step of set_api_key, reset_api_key and authenticate,
\* whether or not it changes the value.
C10_MutationNotifies ==
    [][/\ (api_key' # api_key \/ api_key_from_env' # api_key_from_env) => notified'
       /\ \A t \in BagToSet(tasks) :
            (/\ t.pc \in {"written", "deleted", "spawned", "read"}
             /\ Advanced(t)
             /\ Gained([t EXCEPT !.pc = "done", !.key = IF t.op = "authenticate"
                                                       THEN None ELSE t.key,
                                 !.res = "ok"]))
            => notified']_vars

\* a set_api_key has just cached its secret and notified
C10_Witness ==
    /\ notified
    /\ \E t \in BagToSet(tasks) :
        t.op = "set_api_key" /\ t.pc = "done" /\ t.res = "ok" /\ t.key = api_key

----------------------------------------------------------------------------
(* Properties: the key a request is sent with *)

\* a set_api_key or reset_api_key has completed and what it cached is the
\* cached value now
SetOrResetDone ==
    \E t \in BagToSet(tasks) :
        /\ t.pc = "done" /\ t.res = "ok"
        /\ \/ t.op = "set_api_key" /\ api_key = t.key
           \/ t.op = "reset_api_key" /\ api_key = None

\* C7: once a set_api_key or reset_api_key has completed, a call that leaves
\* the limiter's queue goes on with the value that is cached then: the request
\* it sends carries the cached key, and it fails with "missing api key" only
\* if no key is cached.
C7_RequestUsesCachedKey ==
    [][SetOrResetDone =>
        /\ \A r \in BagToSet(calls') :
            (r.pc = "request" /\ CopiesIn(r, calls') > CopiesIn(r, calls))
            => r.api_key = api_key
        /\ \A c \in BagToSet(calls) :
            (/\ c.pc \in {"queued", "queued_stream"}
             /\ c.api_key = None
             /\ CopiesIn(c, calls') < CopiesIn(c, calls)
             /\ last_result' = "missing api key")
            => api_key = None]_vars

----------------------------------------------------------------------------
(* Properties: the model list *)

\* the indices of the settings entries for id, and the last of them
EntriesFor(id) == {i \in 1..Len(available_models) : available_models[i].name = id}
LastEntryFor(id) == CHOOSE i \in EntriesFor(id) : \A j \in EntriesFor(id) : j <= i

\* C11: the list provided_models returns has exactly one entry per model id:
\* the ids are the base ids and the settings names, each once; a base model
\* without a settings entry appears as it is; an id with settings entries
\* carries the max_tokens and max_output_tokens of the last entry in settings
\* order; the entries are in ascending order of id
C11_CatalogMerge ==
    models # Nothing =>
        LET list == models[1]
        IN  /\ {list[i].id : i \in 1..Len(list)}
                   = BaseModelIds \cup {available_models[i].name : i \in 1..Len(available_models)}
            /\ \A i, j \in 1..Len(list) : i < j => list[i].id < list[j].id
            /\ \A i \in 1..Len(list) :
                   IF EntriesFor(list[i].id) = {}
                   THEN list[i].model = BaseModel(list[i].id)
                   ELSE LET last == available_models[LastEntryFor(list[i].id)]
                        IN  /\ list[i].model.max_tokens = last.max_tokens
                            /\ list[i].model.max_output_tokens = last.max_output_tokens

\* the list for two settings entries that name the same base model with
\* different limits
C11_Witness ==
    /\ models # Nothing
    /\ Len(available_models) = 2
    /\ available_models[1].name = available_models[2].name
    /\ available_models[1].name \in BaseModelIds
    /\ available_models[1].max_tokens # available_models[2].max_tokens
    /\ Len(models[1]) = Cardinality(BaseModelIds)

----------------------------------------------------------------------------
(* Properties: the decoding of the response *)

\* the deltas of the tool call events for name among evs, concatenated in
\* arrival order
RECURSIVE ArgsFor(_, _)
ArgsFor(name, evs) ==
    IF evs = <<>> THEN <<>>
    ELSE (IF Head(evs).kind = "tool" /\ Head(evs).name = name THEN Head(evs).delta ELSE <<>>)
             \o ArgsFor(name, Tail(evs))

SourceFailed == \E i \in 1..Len(events) : events[i].kind = "error"

\* C12: the decoding of use_any_tool hands on tool arguments only once the
\* deltas named tool_name, concatenated in arrival order, parse as complete
\* JSON, and then hands on that text, once; the deltas of other tools never
\* reach the buffer; a response that ends before the arguments are complete
\* ends the call with IncompleteToolCall
C12_ArgumentsOnlyWhenComplete ==
    stream_state # "idle" =>
        LET args == ArgsFor(tool[1].tool_name, events)
        IN  /\ buffer = args
            /\ \A i \in 1..Len(output) :
                   output[i].ok => IsJson(args) /\ output[i].value = args
            /\ Len(output) <= 1
            /\ (stream_state = "ended" /\ ~SourceFailed /\ ~IsJson(args))
                   => output = <<Err("IncompleteToolCall")>>

\* arguments handed on after a delta of the other tool came between the two
\* fragments of the arguments
C12_Witness ==
    /\ stream_state = "ended"
    /\ Len(events) = 3
    /\ events[2].kind = "tool"
    /\ events[2].name # tool[1].tool_name
    /\ output = <<Ok(<<"[", "]">>)>>

\* the text deltas among evs that are not empty, in arrival order, and the
\* error if there is one
RECURSIVE TextOf(_)
TextOf(evs) ==
    IF evs = <<>> THEN <<>>
    ELSE LET e == Head(evs)
         IN  (IF e.kind = "error" THEN <<Err("source error")>>
              ELSE IF e.kind = "text" /\ e.delta # <<>> THEN <<Ok(e.delta)>>
              ELSE <<>>) \o TextOf(Tail(evs))

\* C13: the stream of stream_completion holds exactly the text deltas that are
\* not empty, each once, in arrival order, and nothing for tool call deltas;
\* a response of tool call deltas only gives an empty stream without an
\* error; an error of the source is handed on once, as the last item, and
\* nothing is decoded after it
C13_TextStreamExact ==
    stream_state # "idle" =>
        /\ output = TextOf(events)
        /\ \A i \in 1..Len(events) :
               events[i].kind = "error" => i = Len(events) /\ stream_state = "ended"
        /\ \A i \in 1..Len(output) : ~output[i].ok => i = Len(output)
        /\ (\A i \in 1..Len(events) : events[i].kind = "tool") => output = <<>>

\* two text deltas handed on in order around an empty delta
C13_Witness ==
    /\ stream_state = "ended"
    /\ Len(events) = 3
    /\ events[2] = TextEvent(<<>>)
    /\ output = <<Ok(<<"b">>), Ok(<<"a">>)>>

----------------------------------------------------------------------------
(* Properties: the request of use_any_tool *)

\* C14: the request use_any_tool sends carries exactly one tool definition,
\* with the name, description and schema it was given, and a tool choice that
\* names the same tool
C14_OneToolForced ==
    (tool # Nothing /\ kimi_request # Nothing) =>
        LET request == kimi_request[1]
            t == tool[1]
        IN  /\ Len(request.tools) = 1
            /\ request.tools[1].name = t.tool_name
            /\ request.tools[1].description = t.tool_description
            /\ request.tools[1].parameters = t.schema
            /\ request.tool_choice # Nothing
            /\ request.tool_choice[1].choice = "Other"
            /\ request.tool_choice[1].function.name = t.tool_name

\* a request built for the tool "edit" with description "d2" and schema "s2"
C14_Witness ==
    /\ tool = Some([tool_name |-> "edit", tool_description |-> "d2", schema |-> "s2"])
    /\ kimi_request # Nothing
    /\ kimi_request[1].tools[1].name = "edit"

----------------------------------------------------------------------------
(* Properties: count_tokens *)

\* the contents of the messages, concatenated
RECURSIVE Concatenated(_)
Concatenated(msgs) ==
    IF msgs = <<>> THEN <<>> ELSE Head(msgs) \o Concatenated(Tail(msgs))

\* C15: count_tokens gives twice the number of characters of all message
\* contents together, 0 for no messages, never a negative number; the call
\* starts no completion call and leaves the credential state and the limiter
\* as they are
C15_CountTokens ==
    [][token_count' # token_count =>
          /\ token_count' = Some(2 * Len(Concatenated(messages)))
          /\ token_count'[1] >= 0
          /\ messages = <<>> => token_count'[1] = 0
          /\ UNCHANGED <<credVars, callVars>>]_vars

\* the count of two messages, one of them with a two-byte character
C15_Witness ==
    /\ messages = << <<"a", "é">>, <<"é">> >>
    /\ token_count = Some(6)

----------------------------------------------------------------------------
(* Properties: the permits of one tool call *)

\* C16: one use_any_tool call holds at most one permit of its model's
\* request_limiter at any time: while it is the only call in flight, at most
\* one permit is in use
C16_ToolCallHoldsOnePermit ==
    \A c \in BagToSet(calls) :
        (c.kind = "use_any_tool" /\ BagCardinality(calls) = 1)
            => request_limiter[c.model] <= 1

----------------------------------------------------------------------------
(* Properties: concurrent credential operations *)

\* C17: the update step of a set_api_key leaves its own secret in api_key,
\* whichever write reached secure storage last; and api_key changes in no
\* step other than an update step of set_api_key, reset_api_key or
\* authenticate: after two concurrent set_api_key the cache holds the secret
\* of the one whose update ran last, never another value
C17_LastUpdateWins ==
    [][/\ \A t \in BagToSet(tasks) :
             (t.op = "set_api_key" /\ t.pc = "written" /\ Advanced(t))
                 => api_key' = t.key /\ api_key' \in Secrets
       /\ (api_key' # api_key /\ ~Completed("reset_api_key") /\ ~Completed("authenticate"))
             => \E t \in BagToSet(tasks) :
                    /\ t.op = "set_api_key" /\ t.pc = "written" /\ Advanced(t)
                    /\ api_key' = t.key]_vars

\* two set_api_key with different secrets have both completed; secure storage
\* holds the secret written last, the cache the other one, updated last
C17_Witness ==
    /\ BagCardinality(tasks) = 2
    /\ \A t \in BagToSet(tasks) : t.op = "set_api_key" /\ t.pc = "done" /\ t.res = "ok"
    /\ \E t \in BagToSet(tasks) : t.key = api_key
    /\ \E t \in BagToSet(tasks) : t.key = credentials
    /\ api_key # credentials

\* C18: the write step of a set_api_key either succeeds, with the secret in
\* secure storage and the cache not yet touched, or fails, and then the task
\* has the error as its result and api_key, api_key_from_env and secure
\* storage are as before and nobody is notified; the cache is updated only by
\* a task whose write succeeded; a finished task changes nothing
C18_WriteBeforeCache ==
    [][\A t \in BagToSet(tasks) :
        (t.op = "set_api_key" /\ Advanced(t)) =>
            CASE t.pc = "writing" ->
                    /\ UNCHANGED <<api_key, api_key_from_env>>
                    /\ notified' = FALSE
                    /\ \/ /\ Gained([t EXCEPT !.pc = "written"])
                          /\ credentials' = t.key
                       \/ /\ Gained([t EXCEPT !.pc = "done", !.res = "write_failed"])
                          /\ UNCHANGED credentials
              [] t.pc = "written" ->
                    /\ api_key' = t.key
                    /\ Gained([t EXCEPT !.pc = "done", !.res = "ok"])
              [] OTHER ->
                    /\ t.pc = "done"
                    /\ UNCHANGED <<api_key, api_key_from_env, credentials>>
                    /\ notified' = FALSE]_vars

\* a set_api_key whose write failed has returned the error; nothing is cached
\* and secure storage does not hold its secret
C18_Witness ==
    /\ api_key = None /\ ~api_key_from_env /\ ~notified
    /\ \E t \in BagToSet(tasks) :
        /\ t.op = "set_api_key" /\ t.pc = "done" /\ t.res = "write_failed"
        /\ credentials # t.key

\* no reset_api_key is in flight and one has completed
ResetCompleted ==
    /\ \E t \in BagToSet(tasks) : t.op = "reset_api_key" /\ t.pc = "done"
    /\ \A t \in BagToSet(tasks) : t.op = "reset_api_key" => t.pc = "done"

\* C19: after a reset_api_key has completed the cache stays empty until an
\* authenticate or set_api_key invoked after it completes.  An authenticate
\* that holds a secret it read from secure storage, while storage is empty
\* again and no reset_api_key is in flight, read before a reset that has
\* completed since: it was in flight when that reset completed, and its
\* update must not bring the deleted secret back
C19_ResetNotUndone ==
    [][\A t \in BagToSet(tasks) :
        (/\ t.op = "authenticate" /\ t.pc = "read" /\ t.key \in Secrets
         /\ Advanced(t)
         /\ api_key = None /\ credentials = None
         /\ ResetCompleted)
            => api_key' = None]_vars

----------------------------------------------------------------------------
(* Properties: the credential state *)

\* C20: in every reachable state api_key_from_env implies that api_key is
\* present
C20_FromEnvImpliesKey == api_key_from_env => api_key # None

\* a reset_api_key after the environment variable was adopted: api_key is
\* absent again and api_key_from_env is false
C20_Witness ==
    /\ api_key = None /\ ~api_key_from_env
    /\ env_var = EnvSecret
    /\ \E t \in BagToSet(tasks) : t.op = "authenticate" /\ t.pc = "done" /\ t.res = "ok"
    /\ \E t \in BagToSet(tasks) : t.op = "reset_api_key" /\ t.pc = "done"

----------------------------------------------------------------------------
(* Properties: a call without a key *)

\* C21: a stream_completion or use_any_tool call made while api_key is None
\* goes on without a key: it never gets as far as the request, it ends with
\* "missing api key" unless the caller drops it first, and neither making it
\* nor any of its steps starts a credential Task or changes api_key,
\* api_key_from_env, the environment or secure storage, whatever the
\* environment variable and secure storage hold
C21_NoKeyNoRequest ==
    [][/\ \A r \in BagToSet(calls') :
             (r.pc \in {"queued", "queued_run"} /\ CopiesIn(r, calls') > CopiesIn(r, calls))
                 => r.api_key = api_key /\ UNCHANGED credVars
       /\ \A r \in BagToSet(calls') :
             r.api_key = None => r.pc \in {"queued", "queued_run", "queued_stream"}
       /\ \A c \in BagToSet(calls) :
             (c.api_key = None /\ CopiesIn(c, calls') < CopiesIn(c, calls)) =>
                 /\ UNCHANGED credVars
                 /\ \/ /\ c.pc = "queued_run"
                       /\ CopiesIn([c EXCEPT !.pc = "queued_stream"], calls')
                              > CopiesIn([c EXCEPT !.pc = "queued_stream"], calls)
                    \/ /\ BagCardinality(calls') < BagCardinality(calls)
                       /\ last_result' \in {"missing api key", "cancelled"}]_vars

\* a call has failed with "missing api key"; nothing is cached and no
\* credential Task was started, although the environment variable is set and
\* secure storage holds a key
C21_Witness ==
    /\ last_result = "missing api key"
    /\ calls = EmptyBag
    /\ api_key = None /\ ~api_key_from_env
    /\ tasks = EmptyBag
    /\ env_var = EnvSecret /\ credentials = "k1"

----------------------------------------------------------------------------
====
